---- MODULE Spec2Model ----
(***************************************************************************)
(* Model of the task service of src/main.py: the CRUD handlers over the    *)
(* task table, the ConnectionManager that fans every change out to the     *)
(* connected websockets, the websocket endpoint's receive loop and the     *)
(* periodic ingestion task.                                                *)
(*                                                                         *)
(* The program runs on one asyncio event loop: a coroutine runs without    *)
(* interruption from one await to the next.  Every action below is one     *)
(* such stretch: it starts where a coroutine resumes from an await and     *)
(* ends where it suspends in the next one (or returns or raises).          *)
(*                                                                         *)
(* The database session is modelled by what it does to the table: a        *)
(* handler's pending change reaches the table when its db.commit()         *)
(* returns, and not at all when db.commit() raises.  created_at is left    *)
(* out: no handler reads it but get_tasks, to order its list, which is     *)
(* modelled as the set of its rows.                                        *)
(*                                                                         *)
(* Calls are numbered in the order they start and keep their history when  *)
(* they end, so MaxCalls bounds the handler invocations of a behaviour.    *)
(***************************************************************************)
EXTENDS Integers, Sequences, FiniteSets, TLC

\* Bounds of the model.
MaxCalls == 2
MaxConns == 2
MaxLoops == 2

\* Program constants.
TitleCut == 50
BodyCut == 150
TitleMax == 100
DescMax == 500

Calls == 1..MaxCalls
Conns == 1..MaxConns
Loops == 1..MaxLoops

VARIABLES
    store,               \* the tasks table: id -> row
    active_connections,  \* ConnectionManager.active_connections
    ws,                  \* websocket_endpoint of each connection: where it is
    client,              \* the peer of each connection: "up" or "down"
    op,                  \* the handler each call runs
    pc,                  \* where the call is suspended
    req,                 \* the call's arguments
    obj,                 \* the TaskModel object the call holds in its session
    dirty,               \* update_task: the attributes the session will write
    it,                  \* send_task_update: the list iterator's index
    cur,                 \* send_task_update: the connection being sent to
    outcome,             \* how the call ended
    owner,               \* 0: an HTTP request; l: called by periodic_task l
    loopPc,              \* periodic_task: where each instance is
    posts,               \* periodic_task: the records still to be created
    loopCall,            \* periodic_task: the add_external_task it awaits
    events,              \* history: the messages each call handed to send_task_update
    startList,           \* history: active_connections when the broadcast started
    sends,               \* history: each finished send_json of a call, with its result
    committed,           \* history: the call's db.commit() returned
    commitLog            \* history: the calls in the order their commits returned

vars == <<store, active_connections, ws, client, op, pc, req, obj, dirty, it, cur,
          outcome, owner, loopPc, posts, loopCall, events, startList, sends, committed, commitLog>>

connVars == <<active_connections, ws, client>>
loopVars == <<loopPc, posts, loopCall>>

----------------------------------------------------------------------------
\* Strings are sequences of characters.

Str(c, n) == [i \in 1..n |-> c]

Min(a, b) == IF a < b THEN a ELSE b

\* Python's s[:n]
Slice(s, n) == SubSeq(s, 1, Min(n, Len(s)))

SetMax(S) == CHOOSE x \in S : \A y \in S : y <= x

Remove(list, x) ==
    LET i == CHOOSE k \in 1..Len(list) : list[k] = x /\ \A j \in 1..(k-1) : list[j] # x
    IN  SubSeq(list, 1, i-1) \o SubSeq(list, i+1, Len(list))

Range(s) == {s[i] : i \in 1..Len(s)}

----------------------------------------------------------------------------
\* The inputs.

TitleA == <<"A">>
TitleB == <<"B">>
DescA == <<"a">>
DescB == <<"b">>

NoRow == [id |-> 0, title |-> <<>>, description |-> <<>>, done |-> FALSE]

TaskModel(i, t, d) == [id |-> i, title |-> t, description |-> d, done |-> FALSE]

EmptyStore == [i \in {} |-> NoRow]

\* tasks.db outlives the process: it is empty or holds what an earlier run left.
InitStores == {EmptyStore, (1 :> TaskModel(1, TitleA, DescA))}

TaskIds == {1}

TaskCreate == {[title |-> TitleA, description |-> DescA]}

\* TaskUpdate.dict(exclude_unset=True): the fields the request set.
EmptyUpdate == [f \in {} |-> FALSE]
TaskUpdate == {EmptyUpdate, [done |-> TRUE], [title |-> TitleB, description |-> DescB]}

Requests ==
       {[h |-> "get_tasks", id |-> 0, data |-> EmptyUpdate]}
  \cup {[h |-> "get_task", id |-> i, data |-> EmptyUpdate] : i \in TaskIds}
  \cup {[h |-> "create_task", id |-> 0, data |-> d] : d \in TaskCreate}
  \cup {[h |-> "update_task", id |-> i, data |-> d] : i \in TaskIds, d \in TaskUpdate}
  \cup {[h |-> "delete_task", id |-> i, data |-> EmptyUpdate] : i \in TaskIds}

NoRequest == [h |-> "none", id |-> 0, data |-> EmptyUpdate]

\* What fetch_posts may return: at most the two records asked for.
ShortPost == [title |-> TitleB, body |-> DescB]
LongPost == [title |-> Str("t", TitleCut + 1), body |-> Str("b", BodyCut + 1)]
PostBatches == {<<>>, <<ShortPost>>, <<LongPost, ShortPost>>}

Mutations == {"create_task", "update_task", "delete_task", "add_external_task"}

----------------------------------------------------------------------------
Init ==
    /\ store \in InitStores
    /\ active_connections = <<>>
    /\ ws = [h \in Conns |-> "none"]
    /\ client = [h \in Conns |-> "absent"]
    /\ op = [p \in Calls |-> "none"]
    /\ pc = [p \in Calls |-> "idle"]
    /\ req = [p \in Calls |-> NoRequest]
    /\ obj = [p \in Calls |-> NoRow]
    /\ dirty = [p \in Calls |-> {}]
    /\ it = [p \in Calls |-> 0]
    /\ cur = [p \in Calls |-> 0]
    /\ outcome = [p \in Calls |-> "pending"]
    /\ owner = [p \in Calls |-> 0]
    /\ loopPc = [l \in Loops |-> IF l = 1 THEN "sleep" ELSE "off"]
    /\ posts = [l \in Loops |-> <<>>]
    /\ loopCall = [l \in Loops |-> 0]
    /\ events = [p \in Calls |-> <<>>]
    /\ startList = [p \in Calls |-> <<>>]
    /\ sends = [p \in Calls |-> <<>>]
    /\ committed = [p \in Calls |-> FALSE]
    /\ commitLog = <<>>

----------------------------------------------------------------------------
\* The tasks table.  id is INTEGER PRIMARY KEY: a new row gets the largest id
\* in the table plus one.

NewId == IF DOMAIN store = {} THEN 1 ELSE SetMax(DOMAIN store) + 1

Insert(row) == store @@ (row.id :> row)

Delete(i) == [j \in DOMAIN store \ {i} |-> store[j]]

\* Mutant: an UPDATE that writes every column of the session's object.
Update_WholeRow(i, row, cols) == [store EXCEPT ![i] = row]

\* UPDATE tasks SET <the changed columns> WHERE id = i
Update(i, row, cols) ==
    [store EXCEPT ![i] = [f \in DOMAIN @ |-> IF f \in cols THEN row[f] ELSE @[f]]]

\* The dict the handlers build from a task for the message.
TaskDict(row) ==
    [title |-> row.title, description |-> row.description, id |-> row.id, done |-> row.done]

\* for field, value in update_data.items(): setattr(task, field, value)
SetAttrs(row, data) ==
    [f \in DOMAIN row |-> IF f \in DOMAIN data THEN data[f] ELSE row[f]]

Changed(row, data) == {f \in DOMAIN data : data[f] # row[f]}

----------------------------------------------------------------------------
\* ConnectionManager.send_task_update

\* Mutant: the loop iterates over a copy of the list taken when it started.
IterList_Snapshot(p) == startList[p]

\* The list the for statement's iterator reads at each step.
IterList(p) == active_connections

\* The head of "for connection in self.active_connections" with the iterator
\* at index i: the next connection's send_json starts, or the loop ends and
\* send_task_update returns to the handler, which returns.
ForLoop(p, i, list) ==
    IF i < Len(list)
    THEN /\ it' = [it EXCEPT ![p] = i + 1]
         /\ cur' = [cur EXCEPT ![p] = list[i + 1]]
         /\ pc' = [pc EXCEPT ![p] = "send"]
         /\ outcome' = outcome
    ELSE /\ it' = [it EXCEPT ![p] = i]
         /\ cur' = [cur EXCEPT ![p] = 0]
         /\ pc' = [pc EXCEPT ![p] = "done"]
         /\ outcome' = [outcome EXCEPT ![p] = "ok"]

send_task_update(p, action, task_data) ==
    /\ events' = [events EXCEPT ![p] = Append(@, [action |-> action, task |-> task_data])]
    /\ startList' = [startList EXCEPT ![p] = active_connections]
    /\ ForLoop(p, 0, active_connections)

\* A handler that raises: nothing more of it runs.
Raise(p, error) ==
    /\ pc' = [pc EXCEPT ![p] = "done"]
    /\ outcome' = [outcome EXCEPT ![p] = error]
    /\ cur' = [cur EXCEPT ![p] = 0]
    /\ it' = it

\* send_json to a peer that is up succeeds; to a peer that has gone it may
\* still succeed or raise.
SendResults(h) == IF client[h] = "up" THEN {TRUE} ELSE {TRUE, FALSE}

\* connection.send_json(message) returns or raises.
SendReturn(p) ==
    /\ pc[p] = "send"
    /\ \E ok \in SendResults(cur[p]) :
        /\ sends' = [sends EXCEPT ![p] = Append(@, [to |-> cur[p], ok |-> ok])]
        /\ IF ok THEN ForLoop(p, it[p], IterList(p)) ELSE Raise(p, "SendError")
    /\ UNCHANGED <<store, connVars, op, req, obj, dirty, owner, loopVars,
                   events, startList, committed, commitLog>>

----------------------------------------------------------------------------
\* ConnectionManager.connect / disconnect and websocket_endpoint

\* A client opens a connection: websocket_endpoint calls manager.connect,
\* which awaits websocket.accept().
WsConnect(h) ==
    /\ ws[h] = "none"
    /\ IF h = 1 THEN TRUE ELSE ws[h - 1] # "none"
    /\ ws' = [ws EXCEPT ![h] = "accepting"]
    /\ client' = [client EXCEPT ![h] = "up"]
    /\ UNCHANGED <<store, active_connections, op, pc, req, obj, dirty, it, cur, outcome,
                   owner, loopVars, events, startList, sends, committed, commitLog>>

\* Mutant: connect appends the websocket twice.
connect_Twice(h) ==
    /\ ws[h] = "accepting"
    /\ active_connections' = Append(Append(active_connections, h), h)
    /\ ws' = [ws EXCEPT ![h] = "open"]
    /\ UNCHANGED <<store, client, op, pc, req, obj, dirty, it, cur, outcome,
                   owner, loopVars, events, startList, sends, committed, commitLog>>

\* Mutant: connect sends the new websocket the events emitted so far.
connect_Replay(h) ==
    /\ ws[h] = "accepting"
    /\ active_connections' = Append(active_connections, h)
    /\ ws' = [ws EXCEPT ![h] = "open"]
    /\ sends' = [p \in Calls |-> IF events[p] # <<>>
                                 THEN Append(sends[p], [to |-> h, ok |-> TRUE])
                                 ELSE sends[p]]
    /\ UNCHANGED <<store, client, op, pc, req, obj, dirty, it, cur, outcome,
                   owner, loopVars, events, startList, committed, commitLog>>

\* accept() returned: connect appends the websocket, and the endpoint waits
\* in receive_text().
connect(h) ==
    /\ ws[h] = "accepting"
    /\ active_connections' = Append(active_connections, h)
    /\ ws' = [ws EXCEPT ![h] = "open"]
    /\ UNCHANGED <<store, client, op, pc, req, obj, dirty, it, cur, outcome,
                   owner, loopVars, events, startList, sends, committed, commitLog>>

\* The peer of a registered connection goes away: its receive_text() will
\* raise WebSocketDisconnect when the endpoint next runs.
ClientClose(h) ==
    /\ ws[h] = "open"
    /\ client[h] = "up"
    /\ client' = [client EXCEPT ![h] = "down"]
    /\ UNCHANGED <<store, active_connections, ws, op, pc, req, obj, dirty, it, cur, outcome,
                   owner, loopVars, events, startList, sends, committed, commitLog>>

\* Mutant: disconnect drops the last websocket of the list, whichever it is.
Unregister_Last(list, h) == SubSeq(list, 1, Len(list) - 1)

\* What manager.disconnect(websocket) makes of the list: list.remove takes
\* out the first occurrence, and is not called when there is none.
Unregister(list, h) == IF h \in Range(list) THEN Remove(list, h) ELSE list

\* receive_text() raises WebSocketDisconnect: the endpoint calls
\* manager.disconnect.
disconnect(h) ==
    /\ ws[h] = "open"
    /\ client[h] = "down"
    /\ active_connections' = Unregister(active_connections, h)
    /\ ws' = [ws EXCEPT ![h] = "closed"]
    /\ UNCHANGED <<store, client, op, pc, req, obj, dirty, it, cur, outcome,
                   owner, loopVars, events, startList, sends, committed, commitLog>>

----------------------------------------------------------------------------
\* The handlers.

callVars == <<op, req, owner>>

\* The call slot a new call takes: slots are used in order.
Free(p) == op[p] = "none" /\ (IF p = 1 THEN TRUE ELSE op[p - 1] # "none")

\* A request arrives and its handler runs to its first await: db.execute in
\* get_tasks, db.get in get_task, update_task and delete_task, db.commit in
\* create_task (after new_task is built and added to the session).
Request(p, r) ==
    /\ Free(p)
    /\ op' = [op EXCEPT ![p] = r.h]
    /\ req' = [req EXCEPT ![p] = r]
    /\ owner' = [owner EXCEPT ![p] = 0]
    /\ pc' = [pc EXCEPT ![p] = CASE r.h = "get_tasks" -> "select"
                                 [] r.h = "create_task" -> "commit"
                                 [] OTHER -> "get"]
    /\ obj' = [obj EXCEPT ![p] = IF r.h = "create_task"
                                 THEN TaskModel(0, r.data.title, r.data.description)
                                 ELSE NoRow]
    /\ UNCHANGED <<store, connVars, dirty, it, cur, outcome, loopVars,
                   events, startList, sends, committed, commitLog>>

\* get_tasks: the select returned; the list is broadcast.
get_tasks(p) ==
    /\ op[p] = "get_tasks" /\ pc[p] = "select"
    /\ send_task_update(p, "get tasks", {TaskDict(store[i]) : i \in DOMAIN store})
    /\ UNCHANGED <<store, connVars, callVars, obj, dirty, loopVars, sends, committed, commitLog>>

\* get_task: db.get returned.
get_task(p) ==
    /\ op[p] = "get_task" /\ pc[p] = "get"
    /\ IF req[p].id \in DOMAIN store
       THEN /\ obj' = [obj EXCEPT ![p] = store[req[p].id]]
            /\ send_task_update(p, "get_task", TaskDict(store[req[p].id]))
       ELSE /\ Raise(p, "NotFound")
            /\ UNCHANGED <<obj, events, startList>>
    /\ UNCHANGED <<store, connVars, callVars, dirty, loopVars, sends, committed, commitLog>>

\* update_task: db.get returned; the fields of the request are set on the
\* task and db.commit is awaited.
update_task_get(p) ==
    /\ op[p] = "update_task" /\ pc[p] = "get"
    /\ IF req[p].id \in DOMAIN store
       THEN /\ obj' = [obj EXCEPT ![p] = SetAttrs(store[req[p].id], req[p].data)]
            /\ dirty' = [dirty EXCEPT ![p] = Changed(store[req[p].id], req[p].data)]
            /\ pc' = [pc EXCEPT ![p] = "commit"]
            /\ UNCHANGED <<outcome, cur, it>>
       ELSE /\ Raise(p, "NotFound")
            /\ UNCHANGED <<obj, dirty>>
    /\ UNCHANGED <<store, connVars, callVars, loopVars, events, startList, sends, committed,
                   commitLog>>

\* Mutant: delete_task without its "if not task" check.
delete_task_get_NoCheck(p) ==
    /\ op[p] = "delete_task" /\ pc[p] = "get"
    /\ obj' = [obj EXCEPT ![p] = IF req[p].id \in DOMAIN store THEN store[req[p].id]
                                 ELSE [NoRow EXCEPT !.id = req[p].id]]
    /\ pc' = [pc EXCEPT ![p] = "commit"]
    /\ UNCHANGED <<outcome, cur, it>>
    /\ UNCHANGED <<store, connVars, callVars, dirty, loopVars, events, startList, sends,
                   committed, commitLog>>

\* delete_task: db.get returned; task_data is kept, the task is marked
\* deleted in the session (db.delete does no I/O) and db.commit is awaited.
delete_task_get(p) ==
    /\ op[p] = "delete_task" /\ pc[p] = "get"
    /\ IF req[p].id \in DOMAIN store
       THEN /\ obj' = [obj EXCEPT ![p] = store[req[p].id]]
            /\ pc' = [pc EXCEPT ![p] = "commit"]
            /\ UNCHANGED <<outcome, cur, it>>
       ELSE /\ Raise(p, "NotFound")
            /\ obj' = obj
    /\ UNCHANGED <<store, connVars, callVars, dirty, loopVars, events, startList, sends,
                   committed, commitLog>>

\* Mutant: a commit that raises after its statement reached the table.
CommitFails_Written(p) ==
    /\ pc[p] = "commit"
    /\ Raise(p, "CommitError")
    /\ store' = IF op[p] = "delete_task" THEN Delete(obj[p].id)
                ELSE IF op[p] = "update_task"
                THEN (IF obj[p].id \in DOMAIN store
                      THEN Update(obj[p].id, obj[p], dirty[p]) ELSE store)
                ELSE Insert([obj[p] EXCEPT !.id = NewId])
    /\ UNCHANGED <<connVars, callVars, obj, dirty, loopVars, events, startList,
                   sends, committed, commitLog>>

\* db.commit() raises (the database is locked or cannot be written; an
\* UPDATE that finds its row gone): nothing is written, the handler ends.
CommitFails(p) ==
    /\ pc[p] = "commit"
    /\ Raise(p, "CommitError")
    /\ UNCHANGED <<store, connVars, callVars, obj, dirty, loopVars, events, startList,
                   sends, committed, commitLog>>

\* Mutant: the task is broadcast where the commit should be awaited.
create_commit_BroadcastFirst(p) ==
    /\ op[p] \in {"create_task", "add_external_task"} /\ pc[p] = "commit"
    /\ send_task_update(p, "created", TaskDict(obj[p]))
    /\ UNCHANGED <<store, connVars, callVars, obj, dirty, loopVars, sends, committed, commitLog>>

\* create_task and add_external_task: db.commit() returned, the row is in
\* the table under a new id; db.refresh is awaited.
create_commit(p) ==
    /\ op[p] \in {"create_task", "add_external_task"} /\ pc[p] = "commit"
    /\ store' = Insert([obj[p] EXCEPT !.id = NewId])
    /\ obj' = [obj EXCEPT ![p].id = NewId]
    /\ committed' = [committed EXCEPT ![p] = TRUE]
    /\ commitLog' = Append(commitLog, p)
    /\ pc' = [pc EXCEPT ![p] = "refresh"]
    /\ UNCHANGED <<connVars, callVars, dirty, it, cur, outcome, loopVars, events,
                   startList, sends>>

\* update_task: db.commit() returned.  The session writes the changed
\* columns; with nothing changed it writes nothing.
update_commit(p) ==
    /\ op[p] = "update_task" /\ pc[p] = "commit"
    /\ dirty[p] # {} => obj[p].id \in DOMAIN store
    /\ store' = IF dirty[p] = {} THEN store ELSE Update(obj[p].id, obj[p], dirty[p])
    /\ committed' = [committed EXCEPT ![p] = TRUE]
    /\ commitLog' = Append(commitLog, p)
    /\ pc' = [pc EXCEPT ![p] = "refresh"]
    /\ UNCHANGED <<connVars, callVars, obj, dirty, it, cur, outcome, loopVars, events,
                   startList, sends>>

\* Mutant: update_task broadcasts under the action of create_task.
refresh_WrongKind(p) ==
    /\ pc[p] = "refresh"
    /\ IF obj[p].id \in DOMAIN store
       THEN /\ obj' = [obj EXCEPT ![p] = store[obj[p].id]]
            /\ send_task_update(p, "created", TaskDict(store[obj[p].id]))
       ELSE /\ Raise(p, "RefreshError")
            /\ UNCHANGED <<obj, events, startList>>
    /\ UNCHANGED <<store, connVars, callVars, dirty, loopVars, sends, committed, commitLog>>

\* create_task, add_external_task and update_task: db.refresh returned the
\* row as the table holds it now, or raised because the row is gone; the
\* task is broadcast.
refresh(p) ==
    /\ pc[p] = "refresh"
    /\ IF obj[p].id \in DOMAIN store
       THEN /\ obj' = [obj EXCEPT ![p] = store[obj[p].id]]
            /\ send_task_update(p, IF op[p] = "update_task" THEN "updated" ELSE "created",
                                TaskDict(store[obj[p].id]))
       ELSE /\ Raise(p, "RefreshError")
            /\ UNCHANGED <<obj, events, startList>>
    /\ UNCHANGED <<store, connVars, callVars, dirty, loopVars, sends, committed, commitLog>>

\* delete_task: db.commit() returned (a DELETE that finds no row is no
\* error); the deletion is broadcast.
delete_commit(p) ==
    /\ op[p] = "delete_task" /\ pc[p] = "commit"
    /\ store' = Delete(obj[p].id)
    /\ committed' = [committed EXCEPT ![p] = TRUE]
    /\ commitLog' = Append(commitLog, p)
    /\ send_task_update(p, "deleted", [id |-> obj[p].id, title |-> obj[p].title])
    /\ UNCHANGED <<connVars, callVars, obj, dirty, loopVars, sends>>

----------------------------------------------------------------------------
\* periodic_task and add_external_task

\* periodic_task calls add_external_task for one record: the task is built
\* from the cut title and body, added to the session, and db.commit is
\* awaited.
add_external_task(l, p, post) ==
    /\ op' = [op EXCEPT ![p] = "add_external_task"]
    /\ req' = [req EXCEPT ![p] = [h |-> "add_external_task", id |-> 0,
                                  data |-> [title |-> Slice(post.title, TitleCut),
                                            description |-> Slice(post.body, BodyCut)]]]
    /\ obj' = [obj EXCEPT ![p] = TaskModel(0, Slice(Slice(post.title, TitleCut), TitleMax),
                                           Slice(Slice(post.body, BodyCut), DescMax))]
    /\ owner' = [owner EXCEPT ![p] = l]
    /\ pc' = [pc EXCEPT ![p] = "commit"]
    /\ loopCall' = [loopCall EXCEPT ![l] = p]

\* run_task_generator: one more periodic_task is started; it sleeps.
run_task_generator(l) ==
    /\ loopPc[l] = "off"
    /\ loopPc[l - 1] # "off"
    /\ loopPc' = [loopPc EXCEPT ![l] = "sleep"]
    /\ UNCHANGED <<store, connVars, op, pc, req, obj, dirty, it, cur, outcome, owner,
                   posts, loopCall, events, startList, sends, committed, commitLog>>

\* asyncio.sleep(20) returned: fetch_posts is awaited.
periodic_task_wake(l) ==
    /\ loopPc[l] = "sleep"
    /\ loopPc' = [loopPc EXCEPT ![l] = "fetch"]
    /\ UNCHANGED <<store, connVars, op, pc, req, obj, dirty, it, cur, outcome, owner,
                   posts, loopCall, events, startList, sends, committed, commitLog>>

\* fetch_posts raised: the exception leaves periodic_task, which ends.
periodic_task_fetch_fails(l) ==
    /\ loopPc[l] = "fetch"
    /\ loopPc' = [loopPc EXCEPT ![l] = "dead"]
    /\ UNCHANGED <<store, connVars, op, pc, req, obj, dirty, it, cur, outcome, owner,
                   posts, loopCall, events, startList, sends, committed, commitLog>>

\* fetch_posts returned: with no record the loop sleeps again, else
\* add_external_task is called for the first one.
periodic_task_fetch(l, batch) ==
    /\ loopPc[l] = "fetch"
    /\ IF batch = <<>>
       THEN /\ loopPc' = [loopPc EXCEPT ![l] = "sleep"]
            /\ UNCHANGED <<op, pc, req, obj, owner, posts, loopCall>>
       ELSE \E p \in Calls :
            /\ Free(p)
            /\ add_external_task(l, p, Head(batch))
            /\ posts' = [posts EXCEPT ![l] = Tail(batch)]
            /\ loopPc' = [loopPc EXCEPT ![l] = "batch"]
    /\ UNCHANGED <<store, connVars, dirty, it, cur, outcome, events, startList, sends,
                   committed, commitLog>>

\* add_external_task returned or raised.  Returned: the next record's
\* add_external_task is called, or after the last one the loop sleeps again.
\* Raised: the exception leaves periodic_task, which ends.
periodic_task_next(l) ==
    /\ loopPc[l] = "batch"
    /\ pc[loopCall[l]] = "done"
    /\ IF outcome[loopCall[l]] # "ok"
       THEN /\ loopPc' = [loopPc EXCEPT ![l] = "dead"]
            /\ loopCall' = [loopCall EXCEPT ![l] = 0]
            /\ UNCHANGED <<op, pc, req, obj, owner, posts>>
       ELSE IF posts[l] = <<>>
       THEN /\ loopPc' = [loopPc EXCEPT ![l] = "sleep"]
            /\ loopCall' = [loopCall EXCEPT ![l] = 0]
            /\ UNCHANGED <<op, pc, req, obj, owner, posts>>
       ELSE \E p \in Calls :
            /\ Free(p)
            /\ add_external_task(l, p, Head(posts[l]))
            /\ posts' = [posts EXCEPT ![l] = Tail(posts[l])]
            /\ loopPc' = loopPc
    /\ UNCHANGED <<store, connVars, dirty, it, cur, outcome, events, startList, sends,
                   committed, commitLog>>

----------------------------------------------------------------------------
\* The websocket endpoint and its peers.
NextWs ==
    \/ \E h \in Conns : WsConnect(h)
    \/ \E h \in Conns : connect(h)
    \/ \E h \in Conns : ClientClose(h)
    \/ \E h \in Conns : disconnect(h)

\* The steps create_task and add_external_task share, and the sends.
NextCreate ==
    \/ \E p \in Calls : CommitFails(p)
    \/ \E p \in Calls : create_commit(p)
    \/ \E p \in Calls : refresh(p)
    \/ \E p \in Calls : SendReturn(p)

\* The HTTP handlers.
NextRequests ==
    \/ \E p \in Calls, r \in Requests : Request(p, r)
    \/ \E p \in Calls : get_tasks(p)
    \/ \E p \in Calls : get_task(p)
    \/ \E p \in Calls : update_task_get(p)
    \/ \E p \in Calls : delete_task_get(p)
    \/ \E p \in Calls : update_commit(p)
    \/ \E p \in Calls : delete_commit(p)

\* The periodic tasks.
NextPeriodic ==
    \/ \E l \in Loops \ {1} : run_task_generator(l)
    \/ \E l \in Loops : periodic_task_wake(l)
    \/ \E l \in Loops : periodic_task_fetch_fails(l)
    \/ \E l \in Loops, batch \in PostBatches : periodic_task_fetch(l, batch)
    \/ \E l \in Loops : periodic_task_next(l)

Next == NextWs \/ NextCreate \/ NextRequests \/ NextPeriodic

\* The whole service.
Spec == Init /\ [][Next]_vars

\* The service while its periodic tasks sleep: requests and websockets.
NextHttp == NextWs \/ NextCreate \/ NextRequests

SpecHttp == Init /\ [][NextHttp]_vars

\* The service while no request arrives: periodic tasks and websockets.
NextIngest == NextWs \/ NextCreate \/ NextPeriodic

SpecIngest == Init /\ [][NextIngest]_vars

----------------------------------------------------------------------------
\* What the history variables say about a call.

\* The connections whose send_json returned.
Delivered(p) == {sends[p][i].to : i \in {j \in 1..Len(sends[p]) : sends[p][j].ok}}

\* The connections whose send_json raised.
FailedTo(p) == {sends[p][i].to : i \in {j \in 1..Len(sends[p]) : ~sends[p][j].ok}}

\* The connections a send_json was started for.
Attempted(p) ==
    {sends[p][i].to : i \in 1..Len(sends[p])} \cup (IF pc[p] = "send" THEN {cur[p]} ELSE {})

Registered == Range(active_connections)

\* The event kind the specification gives each mutation.
EventKind(h) ==
    CASE h = "update_task" -> "updated"
      [] h = "delete_task" -> "deleted"
      [] OTHER -> "created"

Succeeded(p) == pc[p] = "done" /\ outcome[p] = "ok"

RECURSIVE EventCount(_)
EventCount(S) ==
    IF S = {} THEN 0
    ELSE LET p == CHOOSE q \in S : TRUE IN Len(events[p]) + EventCount(S \ {p})

----------------------------------------------------------------------------
\* C1: a mutation's event is handed to the broadcaster, and a fortiori sent
\* to any subscriber, only after that mutation's db.commit() has returned.
C1_CommitBeforeBroadcast ==
    \A p \in Calls :
        (op[p] \in Mutations /\ (events[p] # <<>> \/ pc[p] = "send" \/ sends[p] # <<>>))
            => committed[p]

\* A committed create_task whose event a subscriber has been sent.
C1_Witness ==
    \E p \in Calls :
        op[p] = "create_task" /\ committed[p] /\ Delivered(p) # {}

\* C2: every mutation call that succeeds has emitted exactly one event, of
\* the kind of its operation, so that over the calls that succeeded the
\* events are as many as the calls; no mutation call emits more than one.
C2_OneEventPerMutation ==
    /\ \A p \in Calls :
        op[p] \in Mutations =>
            /\ Len(events[p]) <= 1
            /\ Succeeded(p) =>
                /\ Len(events[p]) = 1
                /\ events[p][1].action = EventKind(op[p])
    /\ LET ok == {p \in Calls : op[p] \in Mutations /\ Succeeded(p)}
       IN  EventCount(ok) = Cardinality(ok)

\* An update and a delete that both succeeded.
C2_Witness ==
    \E p, q \in Calls :
        /\ op[p] = "update_task" /\ Succeeded(p)
        /\ op[q] = "delete_task" /\ Succeeded(q)

\* C3 (as claimed): a broadcast that ends without a failed send has sent the
\* event to every connection that was in the list when it started and is
\* still registered when it ends.
C3_BroadcastReachesStartSet ==
    \A p \in Calls :
        (Succeeded(p) /\ events[p] # <<>>) =>
            \A h \in Range(startList[p]) : h \in Registered => h \in Delivered(p)

\* C4 (as claimed): when a send of a broadcast fails, every other connection
\* that was in the list when it started and is still registered when the
\* broadcast ends has been sent the event.
C4_FailureDoesNotStopDelivery ==
    \A p \in Calls :
        (pc[p] = "done" /\ outcome[p] = "SendError") =>
            \A h \in Range(startList[p]) \ FailedTo(p) :
                h \in Registered => h \in Delivered(p)

\* C5 (as claimed): a send failure never makes a committed mutation end in
\* an error.
C5_SendFailureAbsorbed ==
    \A p \in Calls :
        (op[p] \in Mutations /\ committed[p] /\ pc[p] = "done") => outcome[p] # "SendError"

\* C6 (as claimed): a connection a send has failed for is no longer in the
\* active list.
C6_FailedSendUnregisters ==
    \A p \in Calls : \A h \in FailedTo(p) : h \notin Registered

\* C7: the active list holds exactly the connections whose endpoint is in its
\* receive loop, each once; and a send_json is started only for a connection
\* whose disconnect has not returned, also by a broadcast that began before.
RegistryWellFormed ==
    /\ \A i, j \in 1..Len(active_connections) :
        active_connections[i] = active_connections[j] => i = j
    /\ Registered = {h \in Conns : ws[h] = "open"}

SendStarts(p) == pc'[p] = "send" /\ (pc[p] # "send" \/ it'[p] # it[p])

C7_NoSendAfterUnregister ==
    /\ []RegistryWellFormed
    /\ [][\A p \in Calls : SendStarts(p) => ws[cur'[p]] = "open"]_vars

\* A broadcast in progress one of whose connections was unregistered after it
\* started, before its turn.
C7_Witness ==
    \E p \in Calls : \E h \in Range(startList[p]) :
        /\ pc[p] = "send"
        /\ ws[h] = "closed"
        /\ h \notin Attempted(p)

\* C8 (as claimed): an update that sets no field ends in a validation error
\* (or NotFound for an absent id) and emits no event.
C8_EmptyUpdateRejected ==
    \A p \in Calls :
        (op[p] = "update_task" /\ DOMAIN req[p].data = {} /\ pc[p] = "done") =>
            /\ outcome[p] \in {"ValidationError", "NotFound"}
            /\ events[p] = <<>>

\* C9: get_task, update_task and delete_task of an id that is not in the
\* table raise NotFound, leave the table as it is, and emit no event, then or
\* later.
AbsentId(p) ==
    /\ op[p] \in {"get_task", "update_task", "delete_task"}
    /\ pc[p] = "get" /\ pc'[p] # "get"
    /\ req[p].id \notin DOMAIN store

C9_AbsentIdNotFound ==
    /\ [](\A p \in Calls : outcome[p] = "NotFound" =>
            /\ pc[p] = "done"
            /\ events[p] = <<>> /\ sends[p] = <<>> /\ ~committed[p])
    /\ [][\A p \in Calls : AbsentId(p) =>
            /\ outcome'[p] = "NotFound"
            /\ store' = store]_vars

\* A delete and an update that both found no task.
C9_Witness ==
    \E p, q \in Calls :
        /\ op[p] = "delete_task" /\ outcome[p] = "NotFound"
        /\ op[q] = "update_task" /\ outcome[q] = "NotFound"

\* C10: a db.commit() that fails ends the call with the error, leaves the
\* table as it was, and no event is emitted for the call, then or later.
C10_CommitFailure ==
    /\ [](\A p \in Calls : outcome[p] = "CommitError" =>
            /\ pc[p] = "done"
            /\ events[p] = <<>> /\ sends[p] = <<>> /\ ~committed[p])
    /\ [][\A p \in Calls : (outcome[p] # "CommitError" /\ outcome'[p] = "CommitError") =>
            store' = store]_vars

\* An update with changed fields and a delete whose commits failed.
C10_Witness ==
    \E p, q \in Calls :
        /\ op[p] = "update_task" /\ dirty[p] # {} /\ outcome[p] = "CommitError"
        /\ op[q] = "delete_task" /\ outcome[q] = "CommitError"

\* C11 (as claimed): no periodic_task ever ends: after a fetch_posts that
\* raised, or an add_external_task that raised (in its commit, its refresh or
\* its broadcast), the loop is back in its sleep.
C11_LoopSurvivesFailure ==
    \A l \in Loops : loopPc[l] # "dead"

\* C12: update_task writes the row of its id and nothing else: when its
\* commit returns, the columns the request did not set (id among them) are as
\* they were, the columns it changed hold the request's values, and every
\* other row and the set of ids are as they were; no other step of the call
\* writes the table; and its "updated" event carries the four fields of the
\* row as the table holds it.
Fields == {"id", "title", "description", "done"}

UpdateCommits(p) == op[p] = "update_task" /\ pc[p] = "commit" /\ pc'[p] = "refresh"

UpdateEmits(p) == op[p] = "update_task" /\ pc[p] = "refresh" /\ events'[p] # events[p]

C12_UpdateFrame ==
    [][\A p \in Calls :
        /\ UpdateCommits(p) =>
            /\ DOMAIN store' = DOMAIN store
            /\ \A j \in DOMAIN store \ {req[p].id} : store'[j] = store[j]
            /\ req[p].id \in DOMAIN store =>
                /\ \A f \in Fields \ DOMAIN req[p].data :
                    store'[req[p].id][f] = store[req[p].id][f]
                /\ \A f \in dirty[p] : store'[req[p].id][f] = req[p].data[f]
        /\ (op[p] = "update_task" /\ pc'[p] # pc[p] /\ ~UpdateCommits(p)) => store' = store
        /\ UpdateEmits(p) =>
            /\ req[p].id \in DOMAIN store
            /\ events'[p] = <<[action |-> "updated", task |-> store[req[p].id]]>>
            /\ DOMAIN events'[p][1].task = Fields
      ]_vars

\* Two updates of the task that ran together, one of done and one of title
\* and description, with the event of the first carrying all three changes.
C12_Witness ==
    \E p, q \in Calls :
        /\ op[p] = "update_task" /\ req[p].data = [done |-> TRUE] /\ Succeeded(p)
        /\ op[q] = "update_task" /\ DOMAIN req[q].data = {"title", "description"}
        /\ committed[q]
        /\ events[p][1].task = [id |-> 1, title |-> TitleB, description |-> DescB,
                                done |-> TRUE]

\* C13 (as claimed): when a cycle of a periodic_task is over and the store
\* failed none of its commits, every record fetch_posts returned has been
\* made a task: none is left over, and each add_external_task of the loop
\* has committed a row with its title and description cut to the maximum
\* lengths and emitted one "created" event carrying that row.
StoreFailed(l) ==
    \E p \in Calls : owner[p] = l /\ outcome[p] \in {"CommitError", "RefreshError"}

C13_CycleCreatesEveryRecord ==
    \A l \in Loops :
        (loopPc[l] \in {"sleep", "dead"} /\ ~StoreFailed(l)) =>
            /\ posts[l] = <<>>
            /\ \A p \in Calls :
                owner[p] = l =>
                    /\ committed[p]
                    /\ Len(obj[p].title) <= TitleCut
                    /\ Len(obj[p].description) <= BodyCut
                    /\ Len(events[p]) = 1
                    /\ events[p][1] = [action |-> "created", task |-> TaskDict(obj[p])]

\* C14 (as claimed): a get_tasks or get_task that succeeds has emitted exactly
\* one event, of a read kind, and has sent it to every connection that was
\* registered when the broadcast started and still is when it has ended; a
\* get_task of an absent id emits none and sends nothing; and no step of a
\* read writes the table.
Reads == {"get_tasks", "get_task"}

ReadKinds == {"get tasks", "get_task"}

C14_ReadBroadcastsToAll ==
    /\ [](\A p \in Calls :
            op[p] \in Reads =>
                /\ Len(events[p]) <= 1
                /\ Succeeded(p) =>
                    /\ Len(events[p]) = 1
                    /\ events[p][1].action \in ReadKinds
                    /\ Range(startList[p]) \cap Registered \subseteq Delivered(p)
                /\ outcome[p] = "NotFound" => (events[p] = <<>> /\ sends[p] = <<>>))
    /\ [][\A p \in Calls : (op[p] \in Reads /\ pc'[p] # pc[p]) => store' = store]_vars

\* C15: manager.disconnect of a websocket that is not in the list leaves the
\* list as it is, and a second disconnect of a websocket leaves the list as
\* the first one left it: for every list the service reaches and every
\* websocket, and for the list each disconnect of the endpoint has produced.
C15_UnregisterIdempotent ==
    /\ [](\A h \in Conns :
            /\ h \notin Range(active_connections) =>
                Unregister(active_connections, h) = active_connections
            /\ h \notin Range(Unregister(active_connections, h))
            /\ Unregister(Unregister(active_connections, h), h)
                 = Unregister(active_connections, h))
    /\ [][\A h \in Conns :
            (ws[h] = "open" /\ ws'[h] = "closed") =>
                /\ active_connections' = Unregister(active_connections, h)
                /\ Unregister(active_connections', h) = active_connections']_vars

\* A websocket has been unregistered while another one stays registered.
C15_Witness ==
    \E h, g \in Conns :
        /\ ws[h] = "closed"
        /\ h \notin Range(active_connections)
        /\ active_connections = <<g>>

\* C16: an event is sent while its broadcast runs and never kept.  A
\* broadcast that starts on an empty list sends nothing and its call ends
\* well at once; only websockets that have been registered are ever sent to;
\* a call that has ended sends and emits nothing more; and registering a
\* websocket sends nothing.  So a websocket registered after a broadcast
\* ended is never sent that broadcast's event.
C16_NoBufferNoReplay ==
    /\ [](\A p \in Calls :
            /\ (events[p] # <<>> /\ startList[p] = <<>>) =>
                (Succeeded(p) /\ sends[p] = <<>>)
            /\ \A h \in Attempted(p) : ws[h] \in {"open", "closed"})
    /\ [][/\ \A p \in Calls :
              pc[p] = "done" =>
                  (pc'[p] = "done" /\ sends'[p] = sends[p] /\ events'[p] = events[p])
          /\ \A h \in Conns : (ws[h] # "open" /\ ws'[h] = "open") => sends' = sends
         ]_vars

\* A mutation that succeeded with its event emitted to an empty list, and a
\* websocket registered since.
C16_Witness ==
    \E p \in Calls, h \in Conns :
        /\ op[p] \in Mutations /\ committed[p] /\ Succeeded(p)
        /\ Len(events[p]) = 1 /\ startList[p] = <<>> /\ sends[p] = <<>>
        /\ h \in Registered

\* C17 (as claimed): once run_task_generator has been called k >= 1 times
\* with a periodic_task running, k + 1 periodic_tasks run, and go on running
\* side by side whatever steps they and the service take.
Started == {l \in Loops : loopPc[l] # "off"}

Running == {l \in Loops : loopPc[l] \in {"sleep", "fetch", "batch"}}

Triggers == Cardinality(Started) - 1

AllTriggeredRun == Triggers >= 1 /\ Cardinality(Running) = Triggers + 1

C17_TriggeredLoopsKeepRunning ==
    [][AllTriggeredRun => AllTriggeredRun']_vars

\* C18 (as claimed): a websocket is sent the events of two mutations in the
\* order their commits returned: the send_json of a mutation's event to a
\* websocket is never started after that websocket has been sent the event of
\* a mutation that committed later.
CommitIndex(p) == CHOOSE i \in 1..Len(commitLog) : commitLog[i] = p

CommittedBefore(p, q) ==
    /\ p \in Range(commitLog) /\ q \in Range(commitLog)
    /\ CommitIndex(p) < CommitIndex(q)

C18_EventsInCommitOrder ==
    [][\A p, q \in Calls :
        (/\ op[p] \in Mutations /\ op[q] \in Mutations
         /\ CommittedBefore(p, q)
         /\ SendStarts(p)) => cur'[p] \notin Delivered(q)
      ]_vars

\* C19: a websocket is in the list at most once, and only once its accept()
\* has returned; the list grows only by the websocket whose accept() returns
\* in that step; and a call starts at most one send_json per websocket,
\* whatever is appended to or removed from the list while it iterates.
Occurrences(list, h) == Cardinality({i \in 1..Len(list) : list[i] = h})

SendsTo(p, h) ==
    Cardinality({i \in 1..Len(sends[p]) : sends[p][i].to = h})
        + (IF pc[p] = "send" /\ cur[p] = h THEN 1 ELSE 0)

C19_AtMostOnce ==
    /\ [](\A h \in Conns :
            /\ Occurrences(active_connections, h) <= 1
            /\ Occurrences(active_connections, h) = 1 => ws[h] = "open"
            /\ \A p \in Calls : SendsTo(p, h) <= 1)
    /\ [][Len(active_connections') > Len(active_connections) =>
            \E h \in Conns :
                /\ ws[h] = "accepting" /\ ws'[h] = "open"
                /\ active_connections' = Append(active_connections, h)]_vars

\* A broadcast that started on the list <<1>> and is now sending to
\* websocket 2, registered since, after websocket 1 was sent the event and
\* was unregistered.
C19_Witness ==
    \E p \in Calls :
        /\ startList[p] = <<1>> /\ Delivered(p) = {1}
        /\ pc[p] = "send" /\ cur[p] = 2
        /\ ws[1] = "closed" /\ active_connections = <<2>>

====
